---- MODULE Spec2Model ----
(***************************************************************************)
(* Drag-and-drop marker question (question/type/ddmarker/amd/src/          *)
(* question.js): the page state the script keeps in the DOM and in the     *)
(* singleton t, and one action per event handler.                          *)
(*                                                                         *)
(* Text (the value of a hidden input, a drop zone's coords) is a sequence  *)
(* of one-character strings, so that join/split/Number are computed.       *)
(* A position is a pair <<left, top>>.                                     *)
(***************************************************************************)
EXTENDS Integers, Sequences, FiniteSets, TLC

VARIABLES
    readOnly,        \* t.readOnly (config.readOnly)
    dropzones,       \* t.dropzones (config.dropzones)
    choices,         \* the input.choices elements: per choice, its policy classes
    bgImg,           \* the background image file: [width, height]
    imageLoaded,     \* the image's load event has fired
    bgPos,           \* bgImage().position(): top-left relative to div.ddarea
    field,           \* value of input.choiceN, per choice (text)
    items,           \* span.dragitem elements per choice, in document order
    shapes,          \* t.shapes, keyed by drop zone number
    labels,          \* span.markertextN elements in div.markertexts
    svgDom,          \* <svg> elements in the drag items area, in document order
    nextColourIndex, \* t.nextColourIndex
    lastEvent,       \* the handler that ran last
    dropped,         \* after dragEnd: the choice and image position of the node
    input,           \* the arguments of a function called on its own
    output           \* what that call returned

vars == <<readOnly, dropzones, choices, bgImg, imageLoaded, bgPos, field,
          items, shapes, labels, svgDom, nextColourIndex, lastEvent, dropped,
          input, output>>

\* null, where a string, a position or a match is expected.
Null == "null"

NoXY == <<>>

NoMatch == <<>>

\* A hole of the shapes array, a marker text span that does not exist, and
\* dropped when the last handler was not dragEnd.
NoShape == [tag |-> "none"]

NoLabel == [span |-> FALSE, html |-> "", anchor |-> FALSE, xy |-> NoXY]

NoDrop == [choice |-> 0, bgImgXY |-> NoXY]

\* input and output while the page runs (no function is called on its own),
\* and output before the call returns.
NoCall == [fn |-> "none"]

(***************************************************************************)
(* Bounds of the model.                                                    *)
(***************************************************************************)
\* A pointer-down or a nudge is taken only while the page has at most this
\* many drag items (an unlimited choice grows without bound).
MaxItems == 2

\* A pointer-down is taken only while fewer than this many items of the page
\* have the beingdragged class.
MaxDragged == 2

(***************************************************************************)
(* Text helpers: Array.prototype.join / toString, String.prototype.split,  *)
(* Number().                                                               *)
(***************************************************************************)
Digit == <<"0", "1", "2", "3", "4", "5", "6", "7", "8", "9">>

IsDigit(ch) == \E d \in 1..10 : Digit[d] = ch

DigitVal(ch) == (CHOOSE d \in 1..10 : Digit[d] = ch) - 1

RECURSIVE NatToText(_)
NatToText(n) ==
    IF n < 10 THEN <<Digit[n + 1]>>
    ELSE NatToText(n \div 10) \o <<Digit[(n % 10) + 1]>>

\* String(n) for an integer n.
IntToText(n) == IF n < 0 THEN <<"-">> \o NatToText(0 - n) ELSE NatToText(n)

RECURSIVE DigitsToNat(_)
DigitsToNat(s) ==
    IF s = <<>> THEN 0
    ELSE 10 * DigitsToNat(SubSeq(s, 1, Len(s) - 1)) + DigitVal(s[Len(s)])

AllDigits(s) == \A k \in 1..Len(s) : IsDigit(s[k])

NaN == "NaN"

\* Number(s): the empty string is 0, a decimal integer is its value,
\* anything else is NaN.
Number(s) ==
    IF s = <<>> THEN 0
    ELSE IF AllDigits(s) THEN DigitsToNat(s)
    ELSE IF s[1] = "-" /\ Len(s) > 1 /\ AllDigits(Tail(s)) THEN 0 - DigitsToNat(Tail(s))
    ELSE NaN

\* s.split(sep) for a one-character separator: always at least one part.
RECURSIVE split(_, _)
split(s, sep) ==
    IF \A k \in 1..Len(s) : s[k] # sep THEN <<s>>
    ELSE LET p == CHOOSE k \in 1..Len(s) :
                      s[k] = sep /\ \A j \in 1..(k - 1) : s[j] # sep
         IN <<SubSeq(s, 1, p - 1)>> \o split(SubSeq(s, p + 1, Len(s)), sep)

\* parts.join(sep) for a sequence of texts.
RECURSIVE join(_, _)
join(parts, sep) ==
    IF parts = <<>> THEN <<>>
    ELSE IF Len(parts) = 1 THEN parts[1]
    ELSE parts[1] \o <<sep>> \o join(Tail(parts), sep)

\* The mutant writes y before x.
arrayToString_swapped(xy) == IntToText(xy[2]) \o <<",">> \o IntToText(xy[1])

\* String([x, y]) is "x,y": what join(';') makes of each element of coords.
arrayToString(xy) == IntToText(xy[1]) \o <<",">> \o IntToText(xy[2])

RECURSIVE MapArrayToString(_)
MapArrayToString(coords) ==
    IF coords = <<>> THEN <<>>
    ELSE <<arrayToString(coords[1])>> \o MapArrayToString(Tail(coords))

(***************************************************************************)
(* The page: choices, the background image and where things are laid out.  *)
(***************************************************************************)
\* The choices of the questions tried: a single unlimited choice, a single
\* choice of at most two markers, two choices of one marker each.
Unlimited == [c \in {1} |-> [infinite |-> TRUE, noofdrags |-> 0]]

UpToTwo == [c \in {1} |-> [infinite |-> FALSE, noofdrags |-> 2]]

TwoChoices == [c \in {1, 2} |-> [infinite |-> FALSE, noofdrags |-> 1]]

\* The drop zones shown when some were missed: a circle, a polygon with a
\* vertex outside the image, a rectangle whose corner is outside, a shape of
\* an unknown kind, and a circle without a marker text.
Feedback ==
    <<[markertext |-> "A", shape |-> "circle", coords |-> <<"1", ",", "1", ";", "0">>],
      [markertext |-> "B", shape |-> "polygon",
       coords |-> <<"1", ",", "1", ";", "2", ",", "1", ";", "9", ",", "1", ";",
                    "2", ",", "1">>],
      [markertext |-> "C", shape |-> "rectangle",
       coords |-> <<"1", ",", "0", ";", "2", ",", "1">>],
      [markertext |-> "D", shape |-> "star", coords |-> <<"1", ",", "1">>],
      [markertext |-> "", shape |-> "circle", coords |-> <<"2", ",", "1", ";", "0">>]>>

\* The configurations init is called with.
Questions ==
    {[readOnly |-> FALSE, choices |-> Unlimited, dropzones |-> <<>>],
     [readOnly |-> FALSE, choices |-> UpToTwo, dropzones |-> Feedback],
     [readOnly |-> FALSE, choices |-> TwoChoices, dropzones |-> <<>>],
     [readOnly |-> TRUE, choices |-> UpToTwo, dropzones |-> <<>>],
     [readOnly |-> TRUE, choices |-> TwoChoices, dropzones |-> Feedback]}

\* inputsForChoices(): one input per choice.
Choices == DOMAIN choices

\* $(inputnode).hasClass('infinite')
infinite == [c \in Choices |-> choices[c].infinite]

\* The numeric suffix of the input's noofdragsN class.
noofdrags == [c \in Choices |-> choices[c].noofdrags]

\* Images the question may be configured with.
ImageSizes == {[width |-> 2, height |-> 1]}

\* Where a window size puts the image inside div.ddarea.
ImagePositions == {<<3, 1>>, <<4, 1>>}

\* Page offset of div.ddarea, the offset parent of the image and the items.
AncestorOffset == <<10, 20>>

\* Values the hidden inputs may carry when the page is rendered.
InitialFields == {<<>>, <<"2", ",", "1">>}

\* bgImage(): the image element as laid out; an image that has not loaded
\* has no size.  pos is position(), relative to div.ddarea.
bgImageOf(loaded, pos) ==
    [width  |-> IF loaded THEN bgImg.width ELSE 0,
     height |-> IF loaded THEN bgImg.height ELSE 0,
     pos    |-> pos]

bgImage == bgImageOf(imageLoaded, bgPos)

\* bgImage().offset()
bgOffset(img) == <<img.pos[1] + AncestorOffset[1], img.pos[2] + AncestorOffset[2]>>

\* element.offset() of an absolutely positioned drag item
itemOffset(it) == <<it.pos[1] + AncestorOffset[1], it.pos[2] + AncestorOffset[2]>>

\* dragItemHome(choiceNo): the span.draghome of the choice, with its marker
\* text and its position(); the homes sit in a row below the image.
dragItemHome(img, choiceNo) ==
    [text |-> choiceNo,
     pos  |-> <<img.pos[1] + 1 + choiceNo, img.pos[2] + img.height + 14>>]

(***************************************************************************)
(* CoordinateMapper                                                        *)
(***************************************************************************)
\* The mutant leaves the far edges out.
coordsInBgImg_exclusive(img, coords) ==
    /\ coords[1] > 0
    /\ coords[2] > 0
    /\ coords[1] < img.width
    /\ coords[2] < img.height

coordsInBgImg_zeroAllowed(img, coords) ==
    /\ coords[1] >= 0
    /\ coords[2] >= 0
    /\ coords[1] <= img.width
    /\ coords[2] <= img.height

coordsInBgImg(img, coords) ==
    /\ coords[1] > 0
    /\ coords[2] > 0
    /\ coords[1] <= img.width
    /\ coords[2] <= img.height

convertToBgImgXY(img, windowxy) ==
    <<windowxy[1] - bgOffset(img)[1] - 1, windowxy[2] - bgOffset(img)[2] - 1>>

\* The mutant leaves out the 1px border.
convertToWindowXY_noBorder(img, bgImgXY) ==
    <<bgImgXY[1] + img.pos[1], bgImgXY[2] + img.pos[2]>>

convertToWindowXY(img, bgImgXY) ==
    <<bgImgXY[1] + img.pos[1] + 1, bgImgXY[2] + img.pos[2] + 1>>

Max(a, b) == IF a > b THEN a ELSE b

Min(a, b) == IF a < b THEN a ELSE b

constrainToBgImg(img, windowxy) ==
    LET b == convertToBgImgXY(img, windowxy)
    IN convertToWindowXY(img, <<Min(img.width, Max(0, b[1])),
                                Min(img.height, Max(0, b[2]))>>)

dragHomeXY(img, choiceNo) ==
    <<dragItemHome(img, choiceNo).pos[1], dragItemHome(img, choiceNo).pos[2] - 12>>

(***************************************************************************)
(* Drag items                                                              *)
(***************************************************************************)
\* A span.dragitem: its itemN class, its marker text, its css left/top, its
\* beingdragged class, and whether it is the node the drag library follows.
cloneNewDragItem(draghome, itemno) ==
    [idx |-> itemno, text |-> draghome.text, pos |-> draghome.pos,
     beingdragged |-> FALSE, held |-> FALSE]

\* dragItemForChoice(choiceNo, i): the items with class itemN, in document order.
dragItemForChoice(its, i) == SelectSeq(its, LAMBDA it : it.idx = i)

\* jQuery hasClass on a set: true when any element of the set has the class.
hasClassBeingDragged(set) == \E k \in 1..Len(set) : set[k].beingdragged

\* The coordinate strings of val.split(';') turned into window positions.
RECURSIVE decodeToWindow(_, _)
decodeToWindow(img, coordsstrings) ==
    IF coordsstrings = <<>> THEN <<>>
    ELSE LET xy == split(coordsstrings[1], ",")
         IN <<convertToWindowXY(img, <<Number(xy[1]), Number(xy[2])>>)>>
            \o decodeToWindow(img, Tail(coordsstrings))

\* The mutant offers a spare when the count has reached the maximum.
spareWanted_atCeiling(choiceNo, displayeddrags) ==
    infinite[choiceNo] \/ displayeddrags <= noofdrags[choiceNo]

\* infinite || (displayeddrags < noofdrags)
spareWanted(choiceNo, displayeddrags) ==
    infinite[choiceNo] \/ displayeddrags < noofdrags[choiceNo]

getCoords(img, choiceNo, val, its) ==
    LET coords == IF val # <<>> THEN decodeToWindow(img, split(val, ";")) ELSE <<>>
        dragging == hasClassBeingDragged(its)
        displayeddrags == Len(coords) + (IF dragging THEN 1 ELSE 0)
    IN IF spareWanted(choiceNo, displayeddrags)
       THEN Append(coords, dragHomeXY(img, choiceNo))
       ELSE coords

\* The loop over coords of redrawDragsAndDrops for one choice.  A slot whose
\* item is missing or is being dragged gets a new clone, put right after the
\* home (so before the older items); otherwise every item of the slot is
\* kept and moved.
RECURSIVE newClones(_, _, _, _)
newClones(draghome, its, coords, i) ==
    IF i >= Len(coords) THEN <<>>
    ELSE LET drag == dragItemForChoice(its, i)
             rest == newClones(draghome, its, coords, i + 1)
         IN IF drag = <<>> \/ hasClassBeingDragged(drag)
            THEN rest \o <<[cloneNewDragItem(draghome, i) EXCEPT !.pos = coords[i + 1]]>>
            ELSE rest

\* The last loop of redrawDragsAndDrops: an item still unneeded and not
\* being dragged is removed.  needed[k] tells whether its[k] lost the class.
removeUnneeded(its, needed) ==
    LET keep == {k \in 1..Len(its) : needed[k] \/ its[k].beingdragged}
        F[k \in 0..Len(its)] ==
            IF k = 0 THEN <<>>
            ELSE IF k \in keep THEN Append(F[k - 1], its[k]) ELSE F[k - 1]
    IN F[Len(its)]

redrawChoice(draghome, its, coords) ==
    LET needed == [k \in 1..Len(its) |->
                      /\ its[k].idx < Len(coords)
                      /\ ~hasClassBeingDragged(dragItemForChoice(its, its[k].idx))]
        moved == [k \in 1..Len(its) |->
                     IF needed[k] THEN [its[k] EXCEPT !.pos = coords[its[k].idx + 1]]
                     ELSE its[k]]
        clones == newClones(draghome, its, coords, 0)
    IN removeUnneeded(clones \o moved,
                      [k \in 1..Len(clones) |-> TRUE] \o needed)

redrawDragItems(img, flds, its) ==
    [c \in Choices |->
        redrawChoice(dragItemHome(img, c), its[c], getCoords(img, c, flds[c], its[c]))]

\* The scan of saveCoordsForChoice over i = 0 .. number of items.
RECURSIVE scanCoords(_, _, _)
scanCoords(img, its, i) ==
    IF i > Len(its) THEN <<>>
    ELSE LET drag == dragItemForChoice(its, i)
             bgImgXY == convertToBgImgXY(img, itemOffset(drag[1]))
         IN (IF drag # <<>> /\ ~hasClassBeingDragged(drag) /\ coordsInBgImg(img, bgImgXY)
             THEN <<bgImgXY>> ELSE <<>>)
            \o scanCoords(img, its, i + 1)

\* droppedNode is the place of the dropped node in its.  The result is the
\* value written to the input of the choice.
saveCoordsForChoice(img, its, droppedNode) ==
    LET scanned == scanCoords(img, its, 0)
        addme == ~\E i \in 0..Len(its) :
                     LET drag == dragItemForChoice(its, i)
                     IN drag # <<>> /\ its[droppedNode].text = drag[1].text
        bgImgXY == convertToBgImgXY(img, itemOffset(its[droppedNode]))
        coords == IF addme /\ coordsInBgImg(img, bgImgXY)
                  THEN Append(scanned, bgImgXY) ELSE scanned
    IN join(MapArrayToString(coords), ";")

(***************************************************************************)
(* Handlers                                                                *)
(***************************************************************************)
\* The mutant registers the handlers in read-only mode too.
handlersRegistered_always == TRUE

\* init registers the pointer, key and resize handlers unless read-only.
handlersRegistered == ~readOnly

\* The state after init(config): nothing is drawn before the image loads.
Init ==
    /\ \E q \in Questions :
           /\ readOnly = q.readOnly
           /\ choices = q.choices
           /\ dropzones = q.dropzones
    /\ bgImg \in ImageSizes
    /\ imageLoaded = FALSE
    /\ bgPos \in ImagePositions
    /\ field \in [Choices -> InitialFields]
    /\ items = [c \in DOMAIN field |-> <<>>]
    /\ shapes = <<>>
    /\ labels = [n \in 1..Len(dropzones) |-> NoLabel]
    /\ svgDom = <<>>
    /\ nextColourIndex = 0
    /\ lastEvent = "init"
    /\ dropped = NoDrop
    /\ input = NoCall
    /\ output = NoCall

\* The drawn state: the drag items and everything the dropzone code keeps.
dom == [items |-> items, shapes |-> shapes, labels |-> labels, svgDom |-> svgDom,
        nextColourIndex |-> nextColourIndex]

setDom(d) ==
    /\ items' = d.items
    /\ shapes' = d.shapes
    /\ labels' = d.labels
    /\ svgDom' = d.svgDom
    /\ nextColourIndex' = d.nextColourIndex

(***************************************************************************)
(* Drop zones                                                              *)
(***************************************************************************)
colours == <<"#FFFFFF", "#B0C4DE", "#DCDCDC", "#D8BFD8", "#87CEFA", "#DAA520",
             "#FFD700", "#F0E68C">>

restartColours == 0

\* The mutant wraps one colour early.
getNextColour_wrapEarly(index) ==
    [colour |-> colours[index + 1],
     nextColourIndex |-> IF index + 1 = Len(colours) - 1 THEN 0 ELSE index + 1]

\* getNextColour: the colour returned and the index left in t.nextColourIndex.
getNextColour(index) ==
    [colour |-> colours[index + 1],
     nextColourIndex |-> IF index + 1 = Len(colours) THEN 0 ELSE index + 1]

\* The end of the run of digits of s that starts at p (p - 1 when s[p] is
\* no digit): what a greedy \d+ takes.
RECURSIVE digitRunEnd(_, _)
digitRunEnd(s, p) ==
    IF p <= Len(s) /\ IsDigit(s[p]) THEN digitRunEnd(s, p + 1) ELSE p - 1

\* A pattern is a sequence of tokens: "d+" for the group (\d+), or a literal
\* character.  The match of the pattern at position p of s: its groups and
\* its end; ok tells whether there is one.
RECURSIVE matchAt(_, _, _)
matchAt(s, p, pattern) ==
    IF pattern = <<>> THEN [ok |-> TRUE, groups |-> <<>>, end |-> p - 1]
    ELSE IF pattern[1] = "d+"
    THEN LET e == digitRunEnd(s, p)
             rest == matchAt(s, e + 1, Tail(pattern))
         IN IF e < p \/ ~rest.ok THEN [ok |-> FALSE, groups |-> <<>>, end |-> 0]
            ELSE [ok |-> TRUE, groups |-> <<SubSeq(s, p, e)>> \o rest.groups,
                  end |-> rest.end]
    ELSE IF p <= Len(s) /\ s[p] = pattern[1]
    THEN matchAt(s, p + 1, Tail(pattern))
    ELSE [ok |-> FALSE, groups |-> <<>>, end |-> 0]

\* s.match(/pattern/): the groups of the leftmost match, or NoMatch.
match(s, pattern) ==
    LET starts == {p \in 1..Len(s) : matchAt(s, p, pattern).ok}
    IN IF starts = {} THEN NoMatch
       ELSE matchAt(s, CHOOSE p \in starts : \A q \in starts : p <= q, pattern).groups

\* s.match(/^pattern$/)
matchAnchored(s, pattern) ==
    LET m == matchAt(s, 1, pattern)
    IN IF m.ok /\ m.end = Len(s) THEN m.groups ELSE NoMatch

\* t.shapes[dropzoneno] = shape: a JavaScript array, with holes (Null) below
\* an index that was set first.
setShape(shps, dropzoneno, shape) ==
    [n \in 1..Max(Len(shps), dropzoneno + 1) |->
        IF n = dropzoneno + 1 THEN shape
        ELSE IF n <= Len(shps) THEN shps[n] ELSE NoShape]

\* The addShape functions give the shapes array they leave and the centre
\* for the marker text, in half pixels (twice the coordinates, so that
\* x + width / 2 is exact), or NoXY.
\* The part of addShape_circle after the match.
circleFrom(img, shps, dropzoneno, colour, coordsparts) ==
    LET centrex == Number(coordsparts[1])
        centrey == Number(coordsparts[2])
        radius == Number(coordsparts[3])
    IN IF coordsparts # NoMatch /\ coordsInBgImg(img, <<centrex - radius, centrey - radius>>)
       THEN [shapes |-> setShape(shps, dropzoneno,
                           [tag |-> "circle", id |-> dropzoneno, cx |-> centrex,
                            cy |-> centrey, r |-> radius, fill |-> colour]),
             xyfortext |-> <<2 * centrex, 2 * centrey>>]
       ELSE [shapes |-> shps, xyfortext |-> NoXY]

addShape_circle(img, shps, dropzoneno, coords, colour) ==
    circleFrom(img, shps, dropzoneno, colour,
               match(coords, <<"d+", ",", "d+", ";", "d+">>))

\* The part of addShape_rectangle after the match.
rectangleFrom(img, shps, dropzoneno, colour, coordsparts) ==
    LET x == Number(coordsparts[1])
        y == Number(coordsparts[2])
        width == Number(coordsparts[3])
        height == Number(coordsparts[4])
    IN IF coordsparts # NoMatch /\ coordsInBgImg(img, <<x + width, y + height>>)
       THEN [shapes |-> setShape(shps, dropzoneno,
                           [tag |-> "rect", id |-> dropzoneno, width |-> width,
                            height |-> height, x |-> x, y |-> y, fill |-> colour]),
             xyfortext |-> <<2 * x + width, 2 * y + height>>]
       ELSE [shapes |-> shps, xyfortext |-> NoXY]

addShape_rectangle(img, shps, dropzoneno, coords, colour) ==
    rectangleFrom(img, shps, dropzoneno, colour,
                  match(coords, <<"d+", ",", "d+", ";", "d+", ",", "d+">>))

\* The points of the polygon string that are x,y pairs inside the image.
\* partsOf[i] is the match of segment i against /^(\d+),(\d+)$/.
RECURSIVE pointsInBgImg(_, _)
pointsInBgImg(img, partsOf) ==
    IF partsOf = <<>> THEN <<>>
    ELSE (IF partsOf[1] # NoMatch
             /\ coordsInBgImg(img, <<Number(partsOf[1][1]), Number(partsOf[1][2])>>)
          THEN <<<<Number(partsOf[1][1]), Number(partsOf[1][2])>>>>
          ELSE <<>>)
         \o pointsInBgImg(img, Tail(partsOf))

polygonPoints(img, coordsparts) ==
    pointsInBgImg(img, [i \in 1..Len(coordsparts) |->
                           matchAnchored(coordsparts[i], <<"d+", ",", "d+">>)])

\* coords.replace(/[,;]/g, ' ')
replaceSeparators(coords) ==
    [k \in 1..Len(coords) |-> IF coords[k] \in {",", ";"} THEN " " ELSE coords[k]]

RECURSIVE minOf(_, _, _)
minOf(xy, axis, start) ==
    IF xy = <<>> THEN start ELSE minOf(Tail(xy), axis, Min(xy[1][axis], start))

RECURSIVE maxOf(_, _, _)
maxOf(xy, axis, start) ==
    IF xy = <<>> THEN start ELSE maxOf(Tail(xy), axis, Max(xy[1][axis], start))

\* The mutant draws a polygon of two points.
polygonFrom_twoPoints(img, shps, dropzoneno, coords, colour, xy) ==
    IF Len(xy) > 1
    THEN [shapes |-> setShape(shps, dropzoneno,
                        [tag |-> "polygon", id |-> dropzoneno, fill |-> colour,
                         points |-> replaceSeparators(coords)]),
          xyfortext |-> <<minOf(xy, 1, img.width) + maxOf(xy, 1, 0),
                          minOf(xy, 2, img.height) + maxOf(xy, 2, 0)>>]
    ELSE [shapes |-> shps, xyfortext |-> NoXY]

\* The part of addShape_polygon after the points xy have been collected.
polygonFrom(img, shps, dropzoneno, coords, colour, xy) ==
    IF Len(xy) > 2
    THEN [shapes |-> setShape(shps, dropzoneno,
                        [tag |-> "polygon", id |-> dropzoneno, fill |-> colour,
                         points |-> replaceSeparators(coords)]),
          xyfortext |-> <<minOf(xy, 1, img.width) + maxOf(xy, 1, 0),
                          minOf(xy, 2, img.height) + maxOf(xy, 2, 0)>>]
    ELSE [shapes |-> shps, xyfortext |-> NoXY]

addShape_polygon(img, shps, dropzoneno, coords, colour) ==
    polygonFrom(img, shps, dropzoneno, coords, colour,
                polygonPoints(img, split(coords, ";")))

\* t['addShape_' + shape], when it is a function.
drawfunc(img, shps, dropzoneno, shape, coords, colour) ==
    CASE shape = "circle" -> addShape_circle(img, shps, dropzoneno, coords, colour)
      [] shape = "rectangle" -> addShape_rectangle(img, shps, dropzoneno, coords, colour)
      [] shape = "polygon" -> addShape_polygon(img, shps, dropzoneno, coords, colour)
      [] OTHER -> [shapes |-> shps, xyfortext |-> NoXY]

\* outerWidth() and outerHeight() of a marker text span.
markerSpanSize == <<6, 2>>

\* The label part of addDropzone, called with link = true: span.markertextN
\* holds an <a> with the text.  A label is [span, html, anchor, xy], xy its
\* css left and top in half pixels (NoXY until it is positioned).
labelFor(existing, markertext) ==
    IF existing.anchor
    THEN IF markertext # "" THEN [existing EXCEPT !.html = markertext]
         ELSE [existing EXCEPT !.html = "", !.anchor = FALSE]
    ELSE IF markertext # ""
    THEN [span |-> TRUE, html |-> markertext, anchor |-> TRUE, xy |-> NoXY]
    ELSE existing

\* The position given to the marker text span whose shape centre is xyfortext.
labelXY(img, xyfortext) ==
    LET wxy == convertToWindowXY(img, <<0, 0>>)
    IN <<xyfortext[1] - markerSpanSize[1] + 2 * wxy[1] - 8,
         xyfortext[2] - markerSpanSize[2] + 2 * wxy[2]>>

\* The end of addDropzone: the marker text span, when there is one and the
\* shape was drawn, is put at the centre of the shape.
positioned(img, d, dropzoneno, label, drawn) ==
    [d EXCEPT !.labels = [d.labels EXCEPT ![dropzoneno + 1] =
                             IF drawn.xyfortext # NoXY /\ label.span
                             THEN [label EXCEPT !.xy = labelXY(img, drawn.xyfortext)]
                             ELSE label],
              !.shapes = drawn.shapes]

addDropzone(img, d, dropzoneno, markertext, shape, coords, colour) ==
    positioned(img, d, dropzoneno,
               labelFor(d.labels[dropzoneno + 1], markertext),
               drawfunc(img, d.shapes, dropzoneno, shape, coords, colour))

\* The mutant appends a new overlay without removing the one before.
drawDropzones_keepOld(img, d) ==
    IF Len(d.shapes) < 1 THEN d
    ELSE [d EXCEPT !.svgDom =
             Append(d.svgDom,
                    [shapes |-> SelectSeq(d.shapes, LAMBDA sh : sh.tag # "none"),
                     left |-> img.pos[1] + 1, top |-> img.pos[2] + 1,
                     width |-> img.width, height |-> img.height])]

\* drawDropzones: t.svg, the overlay appended last, is removed and a new one
\* is appended over the image.
drawDropzones(img, d) ==
    IF Len(d.shapes) < 1 THEN d
    ELSE [d EXCEPT !.svgDom =
             Append(IF d.svgDom # <<>> THEN SubSeq(d.svgDom, 1, Len(d.svgDom) - 1)
                    ELSE <<>>,
                    [shapes |-> SelectSeq(d.shapes, LAMBDA sh : sh.tag # "none"),
                     left |-> img.pos[1] + 1, top |-> img.pos[2] + 1,
                     width |-> img.width, height |-> img.height])]

\* The loop over t.dropzones of redrawDragsAndDrops, from drop zone number n.
RECURSIVE addDropzones(_, _, _)
addDropzones(img, d, n) ==
    IF n >= Len(dropzones) THEN d
    ELSE addDropzones(img,
             addDropzone(img,
                 [d EXCEPT !.nextColourIndex = getNextColour(@).nextColourIndex],
                 n, dropzones[n + 1].markertext, dropzones[n + 1].shape,
                 dropzones[n + 1].coords, getNextColour(d.nextColourIndex).colour),
             n + 1)

\* The dropzone part of redrawDragsAndDrops (lines 116-124).
redrawDropzones(img, d) ==
    IF Len(dropzones) # 0
    THEN drawDropzones(img, addDropzones(img, [d EXCEPT !.nextColourIndex = restartColours], 0))
    ELSE d

\* redrawDragsAndDrops, for the image as laid out (img), the input values
\* (flds) and the drawn state d: the drawn state it leaves.
redrawDragsAndDrops(img, flds, d) ==
    redrawDropzones(img, [d EXCEPT !.items = redrawDragItems(img, flds, d.items)])

\* The mutant writes the value to the input of every choice.
saveThenRedraw_everyInput(img, flds, d, choiceNo, node) ==
    LET saved == [c \in DOMAIN flds |->
                     saveCoordsForChoice(img, d.items[choiceNo], node)]
    IN [field |-> saved, dom |-> redrawDragsAndDrops(img, saved, d)]

\* The mutant redraws from the input values of before the save.
saveThenRedraw_stale(img, flds, d, choiceNo, node) ==
    [field |-> [flds EXCEPT ![choiceNo] = saveCoordsForChoice(img, d.items[choiceNo], node)],
     dom   |-> redrawDragsAndDrops(img, flds, d)]

\* t.saveCoordsForChoice(choiceNo, drag); t.redrawDragsAndDrops(); the tail
\* of dragEnd and of dropzoneKeyPress.
saveThenRedraw(img, flds, d, choiceNo, node) ==
    LET saved == [flds EXCEPT ![choiceNo] =
                     saveCoordsForChoice(img, d.items[choiceNo], node)]
    IN [field |-> saved, dom |-> redrawDragsAndDrops(img, saved, d)]

\* The image's load event: redrawDragsAndDrops is its handler (line 78).
ImageLoad ==
    /\ ~imageLoaded
    /\ imageLoaded' = TRUE
    /\ setDom(redrawDragsAndDrops(bgImageOf(TRUE, bgPos), field, dom))
    /\ lastEvent' = "redraw"
    /\ dropped' = NoDrop
    /\ UNCHANGED <<input, output, readOnly, dropzones, choices, bgImg, bgPos, field>>

\* A window resize moves the image inside div.ddarea; redrawDragsAndDrops is
\* the resize handler when the handlers are registered (line 69).
WindowResize ==
    \E pos \in ImagePositions :
        /\ bgPos' = pos
        /\ IF handlersRegistered
           THEN /\ setDom(redrawDragsAndDrops(bgImageOf(imageLoaded, pos), field, dom))
                /\ lastEvent' = "redraw"
           ELSE /\ UNCHANGED <<items, shapes, labels, svgDom, nextColourIndex>>
                /\ lastEvent' = "resizeUnhandled"
        /\ dropped' = NoDrop
        /\ UNCHANGED <<input, output, readOnly, dropzones, choices, bgImg, imageLoaded, field>>

\* The items with node k of choice c replaced by node, and, when release is
\* TRUE, no other item followed by the drag library any more.
withNode(its, c, k, node, release) ==
    [d \in Choices |->
        [j \in 1..Len(its[d]) |->
            IF d = c /\ j = k THEN node
            ELSE IF release THEN [its[d][j] EXCEPT !.held = FALSE]
            ELSE its[d][j]]]

\* dragItems().length
NoOfItems ==
    LET F[n \in 0..Cardinality(Choices)] ==
            IF n = 0 THEN 0 ELSE F[n - 1] + Len(items[n])
    IN F[Cardinality(Choices)]

\* How many items of the page have the beingdragged class.
NoOfDragged ==
    LET F[n \in 0..Cardinality(Choices)] ==
            IF n = 0 THEN 0
            ELSE F[n - 1] + Len(SelectSeq(items[n], LAMBDA it : it.beingdragged))
    IN F[Cardinality(Choices)]

\* mousedown / touchstart on a drag item (lines 58-66): the item gets the
\* beingdragged class and dd.start makes it the node the library follows.
PointerDown ==
    \E c \in Choices : \E k \in 1..Len(items[c]) :
        /\ handlersRegistered
        /\ NoOfItems <= MaxItems
        /\ items[c][k].beingdragged \/ NoOfDragged < MaxDragged
        /\ items' = withNode(items, c, k,
                             [items[c][k] EXCEPT !.beingdragged = TRUE, !.held = TRUE],
                             TRUE)
        /\ lastEvent' = "pointer"
        /\ dropped' = NoDrop
        /\ UNCHANGED <<input, output, readOnly, dropzones, choices, bgImg, imageLoaded, bgPos, field,
                       shapes, labels, svgDom, nextColourIndex>>

\* Where the pointer may take the followed node (its css left and top): the
\* image point <<1, 1>> with the image at <<3, 1>>, and <<0, 1>>, on the
\* border, with the image at <<4, 1>>.
PointerPoints == {<<5, 3>>}

\* mousemove / touchmove while the library follows a node: the node is put
\* under the pointer (no onMove callback is passed to dd.start).
PointerMove ==
    \E c \in Choices : \E k \in 1..Len(items[c]) : \E p \in PointerPoints :
        /\ items[c][k].held
        /\ items' = withNode(items, c, k, [items[c][k] EXCEPT !.pos = p], FALSE)
        /\ lastEvent' = "pointer"
        /\ dropped' = NoDrop
        /\ UNCHANGED <<input, output, readOnly, dropzones, choices, bgImg, imageLoaded, bgPos, field,
                       shapes, labels, svgDom, nextColourIndex>>

\* mouseup / touchend: the library calls t.dragEnd(x, y, node) with the node
\* it follows.
dragEnd ==
    \E c \in Choices : \E k \in 1..Len(items[c]) :
        /\ items[c][k].held
        /\ LET released == withNode(items, c, k,
                                   [items[c][k] EXCEPT !.beingdragged = FALSE,
                                                       !.held = FALSE],
                                   TRUE)
               r == saveThenRedraw(bgImage, field, [dom EXCEPT !.items = released], c, k)
           IN /\ field' = r.field
              /\ setDom(r.dom)
              /\ dropped' = [choice |-> c,
                             bgImgXY |-> convertToBgImgXY(bgImage, itemOffset(items[c][k]))]
        /\ lastEvent' = "dragEnd"
        /\ UNCHANGED <<input, output, readOnly, dropzones, choices, bgImg, imageLoaded, bgPos>>

\* The keys table of dropzoneKeyPress.
keys(keyCode) ==
    CASE keyCode = 32 -> "remove"
      [] keyCode = 37 -> "left"
      [] keyCode = 38 -> "up"
      [] keyCode = 39 -> "right"
      [] keyCode = 40 -> "down"
      [] keyCode = 65 -> "left"
      [] keyCode = 87 -> "up"
      [] keyCode = 68 -> "right"
      [] keyCode = 83 -> "down"
      [] keyCode = 27 -> "remove"
      [] OTHER -> Null

\* Key codes tried: the ten of the table, and Enter.
KeyCodes == {32, 37, 38, 39, 40, 65, 87, 68, 83, 27, 13}

\* The switch of dropzoneKeyPress and the lines after it: where the target
\* is put.
keyTargetXY(img, choiceNo, xy, direction) ==
    CASE direction = "left"  -> constrainToBgImg(img, <<xy[1] - 1, xy[2]>>)
      [] direction = "right" -> constrainToBgImg(img, <<xy[1] + 1, xy[2]>>)
      [] direction = "down"  -> constrainToBgImg(img, <<xy[1], xy[2] + 1>>)
      [] direction = "up"    -> constrainToBgImg(img, <<xy[1], xy[2] - 1>>)
      [] direction = "remove" -> dragHomeXY(img, choiceNo)

\* keydown / keypress on a focused drag item.
dropzoneKeyPress ==
    \E c \in Choices : \E k \in 1..Len(items[c]) :
    \E direction \in {keys(keyCode) : keyCode \in KeyCodes} :
        LET drag == items[c][k]
        IN /\ handlersRegistered
           /\ direction # "remove" => NoOfItems <= MaxItems
           /\ IF direction = Null
              THEN UNCHANGED <<field, items, shapes, labels, svgDom, nextColourIndex,
                               lastEvent, dropped>>
              ELSE LET xy == keyTargetXY(bgImage, c, itemOffset(drag), direction)
                       placed == withNode(items, c, k, [items[c][k] EXCEPT !.pos = xy], FALSE)
                       r == saveThenRedraw(bgImage, field,
                                           [dom EXCEPT !.items = placed], c, k)
                   IN /\ field' = r.field
                      /\ setDom(r.dom)
                      /\ dropped' = NoDrop
                      /\ lastEvent' = "key"
           /\ UNCHANGED <<input, output, readOnly, dropzones, choices, bgImg, imageLoaded, bgPos>>

Next ==
    \/ ImageLoad
    \/ WindowResize
    \/ PointerDown
    \/ PointerMove
    \/ dragEnd
    \/ dropzoneKeyPress

Spec == Init /\ [][Next]_vars

(***************************************************************************)
(* Properties                                                              *)
(***************************************************************************)
\* The pairs of the value of a hidden input, as image positions.
pairsOf(val) ==
    IF val = <<>> THEN <<>>
    ELSE [i \in 1..Len(split(val, ";")) |->
             <<Number(split(split(val, ";")[i], ",")[1]),
               Number(split(split(val, ";")[i], ",")[2])>>]

\* A sequence without its n-th element.
removeAt(seq, n) == SubSeq(seq, 1, n - 1) \o SubSeq(seq, n + 1, Len(seq))

\* Some item of choice c has the beingdragged class.
isDragging(c) == \E k \in 1..Len(items[c]) : items[c][k].beingdragged

\* Item k of choice c is placed: it is not being dragged and it is displayed
\* at the position of the pair of the input that its index names.
isPlaced(c, k) ==
    /\ ~items[c][k].beingdragged
    /\ items[c][k].idx < Len(pairsOf(field[c]))
    /\ items[c][k].pos = convertToWindowXY(bgImage, pairsOf(field[c])[items[c][k].idx + 1])

\* C1: when a drag ends with the dragged instance at an image position with
\* 0 < x <= width and 0 < y <= height, the input of the choice, as written by
\* the save of that dragEnd, contains that position, whatever happened during
\* the drag (window resizes included).
C1_DropIsPersisted ==
    (lastEvent = "dragEnd" /\ coordsInBgImg(bgImage, dropped.bgImgXY))
        => \E i \in 1..Len(pairsOf(field[dropped.choice])) :
               pairsOf(field[dropped.choice])[i] = dropped.bgImgXY

\* C2: after a commit (dragEnd or a key), whose save runs before its redraw,
\* every item that is not being dragged is displayed where the input written
\* by that save says: the item of index i at the window position of the i-th
\* pair, an item beyond the pairs (the spare) at the home position.
C2_RedrawSeesSavedField ==
    lastEvent \in {"dragEnd", "key"} =>
        \A c \in Choices : \A k \in 1..Len(items[c]) :
            ~items[c][k].beingdragged =>
                IF items[c][k].idx < Len(pairsOf(field[c]))
                THEN items[c][k].pos =
                         convertToWindowXY(bgImage, pairsOf(field[c])[items[c][k].idx + 1])
                ELSE items[c][k].pos = dragHomeXY(bgImage, c)

\* C2 happens: a dragEnd has written the dropped position to the input and
\* the redraw shows an item there, and a spare.
C2_Witness ==
    /\ lastEvent = "dragEnd"
    /\ coordsInBgImg(bgImage, dropped.bgImgXY)
    /\ \E k \in 1..Len(items[dropped.choice]) :
           /\ isPlaced(dropped.choice, k)
           /\ pairsOf(field[dropped.choice])[items[dropped.choice][k].idx + 1]
                  = dropped.bgImgXY
    /\ \E k \in 1..Len(items[dropped.choice]) :
           items[dropped.choice][k].pos = dragHomeXY(bgImage, dropped.choice)

\* C3: every pair (x, y) of every input has 1 <= x <= width and
\* 1 <= y <= height of the image, in every reachable state; and a drop that
\* ends at image x = 0 or y = 0 is not in the input the save wrote.
C3_FieldPairsInBounds ==
    /\ \A c \in Choices : \A i \in 1..Len(pairsOf(field[c])) :
           /\ pairsOf(field[c])[i][1] \in 1..bgImg.width
           /\ pairsOf(field[c])[i][2] \in 1..bgImg.height
    /\ (lastEvent = "dragEnd" /\ (dropped.bgImgXY[1] = 0 \/ dropped.bgImgXY[2] = 0))
           => \A i \in 1..Len(pairsOf(field[dropped.choice])) :
                  pairsOf(field[dropped.choice])[i] # dropped.bgImgXY

\* C3 happens: a drag ended on the left border of the loaded image (x = 0).
C3_Witness ==
    /\ lastEvent = "dragEnd"
    /\ imageLoaded
    /\ dropped.bgImgXY[1] = 0
    /\ dropped.bgImgXY[2] \in 1..bgImg.height

\* The number of pairs of the value of a hidden input, counted on the text.
placedCount(val) ==
    IF val = <<>> THEN 0
    ELSE 1 + Cardinality({k \in 1..Len(val) : val[k] = ";"})

\* placedCount + (isDragging ? 1 : 0)
displayedCount(c) == placedCount(field[c]) + (IF isDragging(c) THEN 1 ELSE 0)

\* C4: for every choice, the number of markers a redraw decides to show (the
\* positions getCoords returns, and the instance being dragged if there is
\* one) is placedCount + (1 if an instance is being dragged), plus one spare
\* exactly when the choice is unlimited or that count is below the maximum;
\* and after a handler that redraws, the items not being dragged fill exactly
\* the slots 0 .. n - 1 of the n positions decided.
C4_RequiredDisplayCount ==
    \A c \in Choices :
        LET decided == Len(getCoords(bgImage, c, field[c], items[c]))
            spare == IF infinite[c] \/ displayedCount(c) < noofdrags[c] THEN 1 ELSE 0
        IN /\ decided + (IF isDragging(c) THEN 1 ELSE 0) = displayedCount(c) + spare
           /\ (infinite[c] /\ field[c] = <<>> /\ ~isDragging(c)) => decided = 1
           /\ (~infinite[c] /\ noofdrags[c] = 2 /\ placedCount(field[c]) = 2
                   /\ ~isDragging(c)) => decided = 2
           /\ lastEvent \in {"redraw", "dragEnd", "key"} =>
                  {items[c][k].idx : k \in {j \in 1..Len(items[c]) :
                                               ~items[c][j].beingdragged}}
                      = 0..(decided - 1)

\* C4 happens: a choice of at most two markers has both placed, none is
\* being dragged, and the redraw shows the two and no spare.
C4_Witness ==
    /\ lastEvent = "dragEnd"
    /\ \E c \in Choices :
           /\ ~infinite[c]
           /\ noofdrags[c] = 2
           /\ placedCount(field[c]) = 2
           /\ ~isDragging(c)
           /\ Len(items[c]) = 2

\* C5: in read-only mode no step puts an item in the being-dragged state or
\* changes the value of an input.
C5_ReadOnlyIsInert ==
    [][readOnly => (field' = field /\ \A c \in Choices : ~isDragging(c)')]_vars

\* C5 happens: a read-only page shows a placed marker (the image has loaded
\* and was moved by a resize), on which pointer and key events arrive.
C5_Witness ==
    /\ readOnly
    /\ imageLoaded
    /\ lastEvent = "resizeUnhandled"
    /\ \E c \in Choices : \E k \in 1..Len(items[c]) :
           items[c][k].idx < Len(pairsOf(field[c]))

\* The step is the commit of Space or Escape on item k of choice c.
removeKeyOn(c, k) ==
    LET xy == keyTargetXY(bgImage, c, itemOffset(items[c][k]), "remove")
        r == saveThenRedraw(bgImage, field,
                 [dom EXCEPT !.items =
                     withNode(items, c, k, [items[c][k] EXCEPT !.pos = xy], FALSE)],
                 c, k)
    IN /\ handlersRegistered
       /\ lastEvent' = "key"
       /\ field' = r.field
       /\ items' = r.dom.items

\* C6: Space or Escape on a placed item takes its pair out of the input of
\* its choice: the input holds one pair fewer, the other pairs unchanged and
\* in the same order.
C6_RemoveKeyRemovesOnePair ==
    [][\A c \in Choices : \A k \in 1..Len(items[c]) :
           (isPlaced(c, k) /\ removeKeyOn(c, k))
               => pairsOf(field'[c]) = removeAt(pairsOf(field[c]), items[c][k].idx + 1)]_vars

\* C7: while the image has not fired its load event, no item is created (so
\* no drag can start) and no input changes.
C7_DisabledUntilLoad ==
    [][~imageLoaded' => (field' = field /\ \A c \in Choices : items'[c] = <<>>)]_vars

\* C8: no two items of a choice have the same index.
C8_IndexUnique ==
    \A c \in Choices : \A j, k \in 1..Len(items[c]) :
        items[c][j].idx = items[c][k].idx => j = k

\* C9: at most one item per choice is being dragged.
C9_OneDragPerChoice ==
    \A c \in Choices :
        Cardinality({k \in 1..Len(items[c]) : items[c][k].beingdragged}) <= 1

MaxPoints == 3

\* Image geometries the functions are called with: position as laid out,
\* and the size of the small image or of a 100 x 100 image.
CallImages ==
    {[width |-> w, height |-> w, pos |-> p] : w \in {2, 100}, p \in ImagePositions}

\* The page while a function is called on its own: read-only, not loaded.
PageAtRest ==
    /\ readOnly = TRUE
    /\ dropzones = <<>>
    /\ choices = Unlimited
    /\ bgImg \in ImageSizes
    /\ imageLoaded = FALSE
    /\ bgPos = <<3, 1>>
    /\ field = [c \in {1} |-> <<>>]
    /\ items = [c \in {1} |-> <<>>]
    /\ shapes = <<>>
    /\ labels = <<>>
    /\ svgDom = <<>>
    /\ nextColourIndex = 0
    /\ lastEvent = "init"
    /\ dropped = NoDrop

pageVars == <<readOnly, dropzones, choices, bgImg, imageLoaded, bgPos, field,
              items, shapes, labels, svgDom, nextColourIndex, lastEvent, dropped>>

\* value = coords.join(';'), the text saveCoordsForChoice writes.
encodeCoords(coords) == join(MapArrayToString(coords), ";")

\* The loop of getCoords over val.split(';'): nothing for the empty text.
decodeCoords(img, val) ==
    IF val # <<>> THEN decodeToWindow(img, split(val, ";")) ELSE <<>>

\* Points with one, two and three digits, inside a 100 x 100 image.
CodecPoints == {<<x, y>> : x \in {1, 10, 30, 100}, y \in {1, 20, 40}}

CodecInputs ==
    {[fn |-> "codec", img |-> img, points |-> pts] :
        img \in {g \in CallImages : g.width = 100 /\ g.pos = <<3, 1>>},
        pts \in UNION {[1..n -> CodecPoints] : n \in 0..MaxPoints}}

\* The points are written as saveCoordsForChoice writes them and the text is
\* read as getCoords reads it.
callCodec ==
    /\ input.fn = "codec"
    /\ output = NoCall
    /\ output' = [fn |-> "codec",
                  text |-> encodeCoords(input.points),
                  coords |-> decodeCoords(input.img, encodeCoords(input.points))]
    /\ UNCHANGED <<input, pageVars>>

\* Page positions around a 2 x 2 image: from two pixels before its border to
\* two pixels after its far edge.
ClampInputs ==
    {[fn |-> "clamp", img |-> img, windowxy |-> <<bgOffset(img)[1] + 1 + dx,
                                                   bgOffset(img)[2] + 1 + dy>>] :
        img \in {g \in CallImages : g.width = 2}, dx \in -2..4, dy \in -2..4}

\* constrainToBgImg(windowxy); then constrainToBgImg of what it returned, and
\* constrainToBgImg of the offset() of an item whose css left and top are
\* what it returned (dropzoneKeyPress, lines 285 and 326).
callConstrain ==
    /\ input.fn = "clamp"
    /\ output = NoCall
    /\ LET xy == constrainToBgImg(input.img, input.windowxy)
       IN output' = [fn |-> "clamp",
                     xy |-> xy,
                     again |-> constrainToBgImg(input.img, xy),
                     ofItem |-> constrainToBgImg(input.img, itemOffset([pos |-> xy]))]
    /\ UNCHANGED <<input, pageVars>>

\* Coordinates before, on and after each edge of a 2 x 2 and of a
\* 100 x 100 image.
EdgeCoords == {-1, 0, 1, 2, 3, 50, 99, 100, 101}

WithinInputs ==
    {[fn |-> "within", img |-> img, coords |-> <<x, y>>] :
        img \in {g \in CallImages : g.pos = <<3, 1>>}, x \in EdgeCoords, y \in EdgeCoords}

callCoordsInBgImg ==
    /\ input.fn = "within"
    /\ output = NoCall
    /\ output' = [fn |-> "within", value |-> coordsInBgImg(input.img, input.coords)]
    /\ UNCHANGED <<input, pageVars>>

\* Most segments of a polygon's coords.
MaxSegments == 4

\* Segments: points of a 100 x 100 image, a point right of it, a point of
\* every image, a point on the left border, and segments that are no x,y.
PolygonSegments ==
    {<<"1", "0", ",", "1", "0">>, <<"2", "0", "0", ",", "1", "0">>,
     <<"5", "0", ",", "9", "0">>, <<"9", "0", ",", "1", "0">>,
     <<"1", ",", "1">>, <<"0", ",", "5">>, <<"x">>, <<>>}

PolygonInputs ==
    {[fn |-> "polygon", img |-> img, coords |-> join(segs, ";")] :
        img \in {g \in CallImages : g.pos = <<3, 1>>},
        segs \in UNION {[1..n -> PolygonSegments] : n \in 1..MaxSegments}}

\* addShape_polygon(0, coords, colour) with no shape registered: the shapes
\* it leaves, the centre it returns, and its array xy.
callAddShape_polygon ==
    /\ input.fn = "polygon"
    /\ output = NoCall
    /\ output' = [fn |-> "polygon",
                  xy |-> polygonPoints(input.img, split(input.coords, ";")),
                  drawn |-> addShape_polygon(input.img, <<>>, 0, input.coords, colours[1])]
    /\ UNCHANGED <<input, pageVars>>

\* No match: what the spec's parsers call null.
NoParse == [ok |-> FALSE]

\* coords.match(/(\d+),(\d+);(\d+)/) and the numbers addShape_circle reads
\* from its groups (lines 523-528).
parseCircle(coords) ==
    LET coordsparts == match(coords, <<"d+", ",", "d+", ";", "d+">>)
    IN IF coordsparts = NoMatch THEN NoParse
       ELSE [ok |-> TRUE, cx |-> Number(coordsparts[1]), cy |-> Number(coordsparts[2]),
             r |-> Number(coordsparts[3])]

\* coords.match(/(\d+),(\d+);(\d+),(\d+)/) and the numbers addShape_rectangle
\* reads from its groups (lines 548-554).
parseRectangle(coords) ==
    LET coordsparts == match(coords, <<"d+", ",", "d+", ";", "d+", ",", "d+">>)
    IN IF coordsparts = NoMatch THEN NoParse
       ELSE [ok |-> TRUE, x |-> Number(coordsparts[1]), y |-> Number(coordsparts[2]),
             w |-> Number(coordsparts[3]), h |-> Number(coordsparts[4])]

\* Texts given as coords: circles, rectangles, and texts that are neither.
ParseBodies ==
    {<<"5", "0", ",", "5", "0", ";", "2", "0">>, <<"5", "0", ",", "5", "0">>,
     <<"1", ",", "1", ";", "0">>,
     <<"1", "0", ",", "1", "0", ";", "2", "0", ",", "3", "0">>,
     <<"5", "0", ";", "5", "0", ",", "2", "0">>, <<"5", "0", ",", "5", "0", ";">>,
     <<"5", "0", ",", ",", "5", "0", ";", "2", "0">>, <<>>}

\* Text before or after them.
ParseJunk == {<<>>, <<"x">>, <<" ">>, <<";">>, <<",", "7">>, <<"7">>}

ParseInputs ==
    {[fn |-> "parse", img |-> img, coords |-> pre \o body \o post] :
        img \in {g \in CallImages : g.width = 100 /\ g.pos = <<3, 1>>},
        pre \in ParseJunk, body \in ParseBodies, post \in ParseJunk}

\* The match of each addShape function on coords, and what addShape_circle
\* and addShape_rectangle (0, coords, colour) register in a 100 x 100 image
\* with no shape registered.
callParse ==
    /\ input.fn = "parse"
    /\ output = NoCall
    /\ output' = [fn |-> "parse",
                  circle |-> parseCircle(input.coords),
                  rectangle |-> parseRectangle(input.coords),
                  drawnCircle |-> addShape_circle(input.img, <<>>, 0, input.coords,
                                                  colours[1]).shapes,
                  drawnRectangle |-> addShape_rectangle(input.img, <<>>, 0, input.coords,
                                                        colours[1]).shapes]
    /\ UNCHANGED <<input, pageVars>>

CallInit ==
    /\ PageAtRest
    /\ input \in CodecInputs \cup ClampInputs \cup WithinInputs \cup PolygonInputs
                  \cup ParseInputs
    /\ output = NoCall

CallNext ==
    \/ callCodec
    \/ callConstrain
    \/ callCoordsInBgImg
    \/ callAddShape_polygon
    \/ callParse

CallSpec == CallInit /\ [][CallNext]_vars

\* C11: decoding the encoded text of a sequence of points inside the image
\* gives the same points in the same order (getCoords hands each one on as
\* its window position); the empty sequence is the empty text, and
\* (10,20),(30,40) is written "10,20;30,40".
C11_CodecRoundTrip ==
    output.fn = "codec" =>
        /\ output.coords = [i \in 1..Len(input.points) |->
                               convertToWindowXY(input.img, input.points[i])]
        /\ (input.points = <<>>) <=> (output.text = <<>>)
        /\ input.points = <<<<10, 20>>, <<30, 40>>>> =>
               output.text = <<"1", "0", ",", "2", "0", ";", "3", "0", ",", "4", "0">>

\* C11 happens: the points (10,20),(30,40) were encoded and decoded.
C11_Witness ==
    /\ output.fn = "codec"
    /\ input.points = <<<<10, 20>>, <<30, 40>>>>
    /\ Len(output.coords) = 2

\* C12 as stated: constrainToBgImg applied to its own result gives that
\* result, for every point and every image geometry.
C12_ClampIdempotent ==
    output.fn = "clamp" => output.again = output.xy

\* C12 amended: constrainToBgImg takes a page position (an offset()) and
\* returns a css position (relative to div.ddarea); applied to the page
\* position of an item put where it said, it gives the same css position.
C12_ClampIdempotentOnOffset ==
    output.fn = "clamp" =>
        /\ output.ofItem = output.xy
        /\ convertToBgImgXY(input.img, itemOffset([pos |-> output.xy]))[1]
               \in 0..input.img.width
        /\ convertToBgImgXY(input.img, itemOffset([pos |-> output.xy]))[2]
               \in 0..input.img.height

\* C12 happens: a point right of and below the image was clamped.
C12_Witness ==
    /\ output.fn = "clamp"
    /\ convertToBgImgXY(input.img, input.windowxy)[1] > input.img.width
    /\ convertToBgImgXY(input.img, input.windowxy)[2] > input.img.height
    /\ output.xy # input.windowxy

\* C13: coordsInBgImg is false for every (x, y) with x <= 0 or y <= 0 or
\* x > width or y > height, and true for every (x, y) with 1 <= x <= width
\* and 1 <= y <= height.
C13_WithinImageBounds ==
    output.fn = "within" =>
        /\ (input.coords[1] <= 0 \/ input.coords[2] <= 0
                \/ input.coords[1] > input.img.width
                \/ input.coords[2] > input.img.height) => output.value = FALSE
        /\ (input.coords[1] \in 1..input.img.width
                /\ input.coords[2] \in 1..input.img.height) => output.value = TRUE

\* C13 happens: the far corner of the image was found inside it.
C13_Witness ==
    /\ output.fn = "within"
    /\ input.coords = <<input.img.width, input.img.height>>
    /\ output.value = TRUE

(***************************************************************************)
(* A page that shows drop zones only (no choices): the drop zones are      *)
(* drawn from a pool, the image is small or 100 x 100, and the events are  *)
(* the image's load and window resizes.                                    *)
(***************************************************************************)
\* Longest list of drop zones.
MaxZones == 10

\* Texts of the coords of the pool.
T_1_1_0 == <<"1", ",", "1", ";", "0">>

T_90_50_20 == <<"9", "0", ",", "5", "0", ";", "2", "0">>

T_10_10_20_30 == <<"1", "0", ",", "1", "0", ";", "2", "0", ",", "3", "0">>

T_scenarioC ==
    <<"1", "0", ",", "1", "0", ";", "2", "0", "0", ",", "1", "0", ";",
      "5", "0", ",", "9", "0">>

T_triangle ==
    <<"1", "0", ",", "1", "0", ";", "5", "0", ",", "9", "0", ";",
      "9", "0", ",", "1", "0">>

T_10_10 == <<"1", "0", ";", "1", "0">>

T_95_95_10_10 == <<"9", "5", ",", "9", "5", ";", "1", "0", ",", "1", "0">>

T_withJunk ==
    <<"1", "0", ",", "1", "0", ";", "x", ";", "5", "0", ",", "9", "0", ";",
      "9", "0", ",", "1", "0", ";", "5">>

\* The pool: a circle that fits every image; a circle of a 100 x 100 image
\* that crosses its right edge; a rectangle; the polygon of which one vertex
\* is outside a 100 x 100 image, leaving two; a triangle; an unknown kind of
\* shape; a circle whose coords are malformed; a rectangle that crosses the
\* far edges; a polygon with malformed segments, and no marker text.
ZonePool ==
    <<[markertext |-> "A", shape |-> "circle", coords |-> T_1_1_0],
      [markertext |-> "B", shape |-> "circle", coords |-> T_90_50_20],
      [markertext |-> "C", shape |-> "rectangle", coords |-> T_10_10_20_30],
      [markertext |-> "D", shape |-> "polygon", coords |-> T_scenarioC],
      [markertext |-> "E", shape |-> "polygon", coords |-> T_triangle],
      [markertext |-> "F", shape |-> "star", coords |-> T_1_1_0],
      [markertext |-> "G", shape |-> "circle", coords |-> T_10_10],
      [markertext |-> "H", shape |-> "rectangle", coords |-> T_95_95_10_10],
      [markertext |-> "", shape |-> "polygon", coords |-> T_withJunk]>>

\* The lists of drop zones: n zones taken from the pool in a circle,
\* starting after the r-th.
ZoneLists ==
    {[k \in 1..n |-> ZonePool[((k - 1 + r) % Len(ZonePool)) + 1]] :
        n \in 0..MaxZones, r \in 0..(Len(ZonePool) - 1)}

ZoneImageSizes == {[width |-> 2, height |-> 1], [width |-> 100, height |-> 100]}

ZoneInit ==
    /\ readOnly \in BOOLEAN
    /\ dropzones \in ZoneLists
    /\ choices = <<>>
    /\ bgImg \in ZoneImageSizes
    /\ imageLoaded = FALSE
    /\ bgPos \in ImagePositions
    /\ field = <<>>
    /\ items = <<>>
    /\ shapes = <<>>
    /\ labels = [n \in 1..Len(dropzones) |-> NoLabel]
    /\ svgDom = <<>>
    /\ nextColourIndex = 0
    /\ lastEvent = "init"
    /\ dropped = NoDrop
    /\ input = NoCall
    /\ output = NoCall

ZoneNext ==
    \/ ImageLoad
    \/ WindowResize

ZoneSpec == ZoneInit /\ [][ZoneNext]_vars

\* Drop zone number k (0-based) has a shape in t.shapes.
isRegistered(k) == k < Len(shapes) /\ shapes[k + 1].tag # "none"

\* C14: every redraw starts the palette at 0 and advances it once per drop
\* zone, drawn or not, wrapping at 8: the shape of the k-th drop zone has
\* colour k mod 8 after every redraw, the ninth drop zone has the colour of
\* the first, and the cursor is left at the number of drop zones mod 8.
C14_PaletteCycles ==
    lastEvent = "redraw" =>
        /\ nextColourIndex = Len(dropzones) % 8
        /\ \A k \in 0..(Len(dropzones) - 1) :
               isRegistered(k) => shapes[k + 1].fill = colours[(k % 8) + 1]
        /\ (isRegistered(0) /\ isRegistered(8)) => shapes[9].fill = shapes[1].fill

\* C14 happens: a second redraw in a row has drawn the first and the ninth
\* of ten drop zones, with drop zones in between that were not drawn.
C14_Witness ==
    /\ lastEvent = "redraw"
    /\ imageLoaded
    /\ Len(dropzones) = 10
    /\ isRegistered(0)
    /\ isRegistered(8)
    /\ \E k \in 1..7 : ~isRegistered(k)
    /\ Len(svgDom) = 1

\* The segments of the coords of a polygon that are x,y pairs of digits
\* naming a point with 1 <= x <= width and 1 <= y <= height.
isVertexInside(img, segment) ==
    /\ Len(split(segment, ",")) = 2
    /\ \A n \in 1..2 : split(segment, ",")[n] # <<>> /\ AllDigits(split(segment, ",")[n])
    /\ Number(split(segment, ",")[1]) \in 1..img.width
    /\ Number(split(segment, ",")[2]) \in 1..img.height

\* C15: every shape registered lies entirely within the image: a circle
\* with its whole disc, a rectangle with its four corners, a polygon with
\* every vertex of the path it is drawn with.
C15_ShapesWithinImage ==
    \A k \in 0..(Len(dropzones) - 1) :
        isRegistered(k) =>
            CASE shapes[k + 1].tag = "circle" ->
                     /\ shapes[k + 1].cx - shapes[k + 1].r >= 0
                     /\ shapes[k + 1].cy - shapes[k + 1].r >= 0
                     /\ shapes[k + 1].cx + shapes[k + 1].r <= bgImage.width
                     /\ shapes[k + 1].cy + shapes[k + 1].r <= bgImage.height
              [] shapes[k + 1].tag = "rect" ->
                     /\ shapes[k + 1].x + shapes[k + 1].width <= bgImage.width
                     /\ shapes[k + 1].y + shapes[k + 1].height <= bgImage.height
              [] shapes[k + 1].tag = "polygon" ->
                     \A n \in 1..Len(split(dropzones[k + 1].coords, ";")) :
                         isVertexInside(bgImage, split(dropzones[k + 1].coords, ";")[n])

\* The points named by the segments of coords that are x,y pairs inside the
\* image, in their order.
verticesInside(img, coords) ==
    LET kept == SelectSeq(split(coords, ";"), LAMBDA sg : isVertexInside(img, sg))
    IN [n \in 1..Len(kept) |->
           <<Number(split(kept[n], ",")[1]), Number(split(kept[n], ",")[2])>>]

\* Twice the midpoint of the axis-aligned bounding box of the points.
boxMidpoint2(points) ==
    LET xs == {points[n][1] : n \in 1..Len(points)}
        ys == {points[n][2] : n \in 1..Len(points)}
        least(S) == CHOOSE v \in S : \A w \in S : v <= w
        most(S) == CHOOSE v \in S : \A w \in S : v >= w
    IN <<least(xs) + most(xs), least(ys) + most(ys)>>

\* C16: of the coords of a polygon, the segments that are not int,int or
\* name a point outside the image are dropped; the polygon is drawn exactly
\* when at least 3 points remain, and then the centre returned for its label
\* is the midpoint of the bounding box of the points that remain (compared
\* doubled); 10,10;200,10;50,90 in a 100 x 100 image leaves (10,10),(50,90)
\* and is not drawn.
C16_PolygonParsing ==
    output.fn = "polygon" =>
        /\ output.xy = verticesInside(input.img, input.coords)
        /\ (output.drawn.shapes # <<>>) <=> (Len(verticesInside(input.img, input.coords)) >= 3)
        /\ (output.drawn.xyfortext # NoXY) <=> (output.drawn.shapes # <<>>)
        /\ output.drawn.shapes # <<>> =>
               /\ output.drawn.shapes[1].tag = "polygon"
               /\ output.drawn.xyfortext
                      = boxMidpoint2(verticesInside(input.img, input.coords))
        /\ (input.img.width = 100 /\ input.coords = T_scenarioC) =>
               /\ output.xy = <<<<10, 10>>, <<50, 90>>>>
               /\ output.drawn.shapes = <<>>

\* C16 happens: a polygon was drawn from coords of which a segment was
\* dropped, and its centre is not the mean of its vertices.
C16_Witness ==
    /\ output.fn = "polygon"
    /\ input.img.width = 100
    /\ Len(output.xy) = 3
    /\ Len(split(input.coords, ";")) = 4
    /\ output.drawn.xyfortext = <<100, 100>>

\* The items of a choice in ascending index (items of one index in document
\* order).
inIndexOrder(its) ==
    LET top == CHOOSE m \in 0..Len(its) + 2 :
                   /\ \A j \in 1..Len(its) : its[j].idx <= m
                   /\ (m = 0 \/ \E j \in 1..Len(its) : its[j].idx = m)
        F[i \in -1..top] == IF i = -1 THEN <<>> ELSE F[i - 1] \o dragItemForChoice(its, i)
    IN F[top]

\* What the claim has the save write for the items its of a choice when
\* node k is dropped: the image positions of the items in ascending index
\* that are not being dragged and are inside the image, then the position of
\* the dropped node if no item carries its marker text and it is inside.
expectedCoords(img, its, k) ==
    LET kept == SelectSeq(inIndexOrder(its),
                    LAMBDA it : /\ ~it.beingdragged
                                /\ coordsInBgImg(img, convertToBgImgXY(img, itemOffset(it))))
        represented == \E j \in 1..Len(its) : its[j].text = its[k].text
        last == convertToBgImgXY(img, itemOffset(its[k]))
    IN [n \in 1..Len(kept) |-> convertToBgImgXY(img, itemOffset(kept[n]))]
       \o (IF ~represented /\ coordsInBgImg(img, last) THEN <<last>> ELSE <<>>)

\* The step is dragEnd for node k of choice c.
dragEndOn(c, k) ==
    /\ items[c][k].held
    /\ lastEvent' = "dragEnd"
    /\ dropped' = [choice |-> c,
                   bgImgXY |-> convertToBgImgXY(bgImage, itemOffset(items[c][k]))]

\* C17: the save of a dragEnd writes the positions of the items of the
\* choice in ascending index, without the items being dragged and the items
\* outside the image, the dropped node's position last only when no item
\* represents it; the order is not by position.
C17_SaveOrder ==
    [][\A c \in Choices : \A k \in 1..Len(items[c]) :
           dragEndOn(c, k) =>
               field'[c] = encodeCoords(expectedCoords(bgImage,
                               withNode(items, c, k,
                                   [items[c][k] EXCEPT !.beingdragged = FALSE,
                                                       !.held = FALSE], TRUE)[c], k))]_vars

\* A drop zone fails: its kind of shape is unknown, or its coords are
\* malformed (a circle or rectangle whose coords do not hold the numbers, a
\* polygon with fewer than 3 segments that are points of the image), or the
\* circle or rectangle its coords describe is not wholly inside the image.
zoneFails(img, zone) ==
    CASE zone.shape = "circle" ->
             LET m == match(zone.coords, <<"d+", ",", "d+", ";", "d+">>)
             IN m = NoMatch
                \/ ~(/\ Number(m[1]) - Number(m[3]) > 0
                     /\ Number(m[2]) - Number(m[3]) > 0
                     /\ Number(m[1]) + Number(m[3]) <= img.width
                     /\ Number(m[2]) + Number(m[3]) <= img.height)
      [] zone.shape = "rectangle" ->
             LET m == match(zone.coords, <<"d+", ",", "d+", ";", "d+", ",", "d+">>)
             IN m = NoMatch
                \/ ~(/\ Number(m[1]) + Number(m[3]) <= img.width
                     /\ Number(m[2]) + Number(m[4]) <= img.height)
      [] zone.shape = "polygon" -> Len(verticesInside(img, zone.coords)) < 3
      [] OTHER -> TRUE

\* The shapes registered, in the order of their drop zones.
registeredShapes == SelectSeq(shapes, LAMBDA sh : sh.tag # "none")

\* C18: a redraw over drop zones of which some fail completes; the drop
\* zones that fail register no shape, every other drop zone's shape is
\* registered, and the overlay holds exactly the registered shapes.
C18_FailuresIsolated ==
    lastEvent = "redraw" =>
        /\ \A k \in 0..(Len(dropzones) - 1) :
               isRegistered(k) <=> ~zoneFails(bgImage, dropzones[k + 1])
        /\ registeredShapes # <<>> =>
               /\ Len(svgDom) = 1
               /\ svgDom[1].shapes = registeredShapes

\* C19: for a choice with a maximum (every input starts with at most one
\* pair, no more than its maximum), once a handler has redrawn, the items
\* of the choice, placed, being dragged and at home together, are no more
\* than the maximum.
C19_InstanceCeiling ==
    lastEvent \in {"redraw", "dragEnd", "key"} =>
        \A c \in Choices : ~infinite[c] => Len(items[c]) <= noofdrags[c]


\* The step is a window resize: handled by the redraw, or not handled.
isResize ==
    \/ lastEvent' = "resizeUnhandled"
    \/ lastEvent' = "redraw" /\ imageLoaded' = imageLoaded

\* C20: every window resize, in read-only mode as in interactive mode and
\* with or without a drag in progress, leaves the page as a full redraw at
\* the image's new position leaves it: the items reconciled, the labels and
\* the overlay of the drop zones at the image's position.
C20_ResizeRedraws ==
    [][isResize => dom' = redrawDragsAndDrops(bgImage', field, dom)]_vars


\* A text of digits, one at least.
isInt(s) == s # <<>> /\ AllDigits(s)

\* The two halves of a text of the form a;b, each split at its commas, or
\* the empty sequence when there are not two halves.
halvesOf(s) ==
    LET halves == split(s, ";")
    IN IF Len(halves) = 2 THEN <<split(halves[1], ","), split(halves[2], ",")>>
       ELSE <<>>

\* What the parsers return by their description: the numbers of a text of
\* the form int,int;int (or int,int;int,int), and null for any other text.
expectedCircle(s) ==
    LET h == halvesOf(s)
    IN IF /\ h # <<>>
          /\ Len(h[1]) = 2 /\ Len(h[2]) = 1
          /\ isInt(h[1][1]) /\ isInt(h[1][2]) /\ isInt(h[2][1])
       THEN [ok |-> TRUE, cx |-> DigitsToNat(h[1][1]), cy |-> DigitsToNat(h[1][2]),
             r |-> DigitsToNat(h[2][1])]
       ELSE NoParse

expectedRectangle(s) ==
    LET h == halvesOf(s)
    IN IF /\ h # <<>>
          /\ Len(h[1]) = 2 /\ Len(h[2]) = 2
          /\ isInt(h[1][1]) /\ isInt(h[1][2]) /\ isInt(h[2][1]) /\ isInt(h[2][2])
       THEN [ok |-> TRUE, x |-> DigitsToNat(h[1][1]), y |-> DigitsToNat(h[1][2]),
             w |-> DigitsToNat(h[2][1]), h |-> DigitsToNat(h[2][2])]
       ELSE NoParse

\* C21: the circle parser gives cx, cy, r exactly for the texts of the form
\* int,int;int and null for every other text, the rectangle parser gives
\* x, y, w, h exactly for the texts of the form int,int;int,int and null
\* otherwise (text before or after the form, or a rectangle given to the
\* circle parser, is null), and a text that parses to null registers no
\* shape.
C21_ParseExact ==
    output.fn = "parse" =>
        /\ output.circle = expectedCircle(input.coords)
        /\ output.rectangle = expectedRectangle(input.coords)
        /\ expectedCircle(input.coords) = NoParse => output.drawnCircle = <<>>
        /\ expectedRectangle(input.coords) = NoParse => output.drawnRectangle = <<>>


\* The four directions of the arrow keys and of W, A, S, D.
Nudges == {"left", "right", "up", "down"}

\* The step is the commit of a nudge in the given direction on item k of
\* choice c.
nudgeOn(c, k, direction) ==
    LET xy == keyTargetXY(bgImage, c, itemOffset(items[c][k]), direction)
        r == saveThenRedraw(bgImage, field,
                 [dom EXCEPT !.items =
                     withNode(items, c, k, [items[c][k] EXCEPT !.pos = xy], FALSE)],
                 c, k)
    IN /\ handlersRegistered
       /\ lastEvent' = "key"
       /\ field' = r.field
       /\ items' = r.dom.items

\* |a - b|
dist(a, b) == IF a < b THEN b - a ELSE a - b

\* C22: a nudge of a placed item never un-places it: for every direction,
\* after the commit the input of its choice holds as many pairs as before,
\* and the pair of the nudged item is its old pair moved by at most 1 on
\* one axis.
C22_NudgeKeepsPlaced ==
    [][\A c \in Choices : \A k \in 1..Len(items[c]) : \A direction \in Nudges :
           (isPlaced(c, k) /\ nudgeOn(c, k, direction)) =>
               /\ Len(pairsOf(field'[c])) = Len(pairsOf(field[c]))
               /\ LET old == pairsOf(field[c])[items[c][k].idx + 1]
                      new == pairsOf(field'[c])[items[c][k].idx + 1]
                  IN dist(old[1], new[1]) + dist(old[2], new[2]) <= 1]_vars


\* The items of the page once a key in the given direction has put item k
\* of choice c at its target, before the save.
keyPlaced(c, k, direction) ==
    withNode(items, c, k,
             [items[c][k] EXCEPT
                 !.pos = keyTargetXY(bgImage, c, itemOffset(items[c][k]), direction)],
             FALSE)

\* The step is the commit of a key in the given direction on item k of
\* choice c: the page shows what the handler leaves and the input of the
\* choice holds what the save wrote before the redraw.
keyCommitOn(c, k, direction) ==
    /\ handlersRegistered
    /\ lastEvent' = "key"
    /\ field'[c] = saveCoordsForChoice(bgImage, keyPlaced(c, k, direction)[c], k)
    /\ items' = saveThenRedraw(bgImage, field,
                               [dom EXCEPT !.items = keyPlaced(c, k, direction)],
                               c, k).dom.items

\* The step is the drag end of item k of choice c: the input of the choice
\* holds what the save wrote before the redraw.
dragEndCommitOn(c, k) ==
    /\ dragEndOn(c, k)
    /\ field'[c] = saveCoordsForChoice(bgImage,
                       withNode(items, c, k,
                                [items[c][k] EXCEPT !.beingdragged = FALSE,
                                                    !.held = FALSE], TRUE)[c], k)

\* C23: a commit on an item of choice c, drag end or key, leaves the input
\* of every other choice unchanged; and no redraw changes an input: a step
\* of the image load or of a resize leaves every input as it was, and every
\* commit step is the commit on an item of some choice c after which the
\* input of c holds what the save wrote before the redraw and every other
\* input is as it was.
C23_InputsFramed ==
    [][/\ lastEvent' \in {"redraw", "resizeUnhandled"} => field' = field
       /\ lastEvent' = "dragEnd" =>
              \E c \in Choices : \E k \in 1..Len(items[c]) :
                  /\ dragEndCommitOn(c, k)
                  /\ \A d \in Choices \ {c} : field'[d] = field[d]
       /\ lastEvent' = "key" =>
              \E c \in Choices : \E k \in 1..Len(items[c]) :
              \E direction \in Nudges \cup {"remove"} :
                  /\ keyCommitOn(c, k, direction)
                  /\ \A d \in Choices \ {c} : field'[d] = field[d]]_vars

\* C23 happens: with two choices, one input holding a pair, a commit on an
\* item of the other choice has written that choice's input, and both
\* inputs hold a pair.
C23_Witness ==
    /\ lastEvent \in {"dragEnd", "key"}
    /\ Cardinality(Choices) = 2
    /\ \A c \in Choices : field[c] # <<>>

====
